---- MODULE Spec2Model ----
(***************************************************************************)
(* tinytable: a builder of SQL DDL text (src/lib.rs).                      *)
(*                                                                         *)
(* Text (a Rust String or &str) is a sequence of one-character strings,    *)
(* so that joining, escaping and separators are computed character by      *)
(* character.  An Arc<Column> is an index into heap, the columns the       *)
(* calling program holds.  A panic!() ends the program: once ret records   *)
(* a panic no operation is enabled.                                        *)
(***************************************************************************)
EXTENDS Integers, Sequences, FiniteSets, TLC

VARIABLES heap, table, ret, first

vars == <<heap, table, ret, first>>

\* Bounds of the explored programs.
MaxLen == 3
MaxAttrs == 2
MaxKeys == 2
MaxFk == 2
MaxHeap == 2
MaxCols == 2
MaxRefs == 1

\* All sequences over S of length 0..n.
SeqsUpTo(S, n) == UNION {[1..k -> S] : k \in 0..n}

----------------------------------------------------------------------------
\* Option<T> and the outcome of a call (a returned value, or panic!()).

None == [some |-> FALSE]

Some(v) == [some |-> TRUE, v |-> v]

Ok(v) == [ok |-> TRUE, val |-> v]

Panic == [ok |-> FALSE]

----------------------------------------------------------------------------
\* Vec<String>::join(sep)
RECURSIVE join(_, _)
join(v, sep) ==
    IF v = <<>> THEN <<>>
    ELSE IF Len(v) = 1 THEN v[1]
    ELSE v[1] \o sep \o join(Tail(v), sep)

\* str::contains(char)
contains(value, ch) == \E i \in DOMAIN value : value[i] = ch

\* str::replace(from, to) for a one-character pattern: every match, left to right.
RECURSIVE replace(_, _, _)
replace(value, from, to) ==
    IF value = <<>> THEN <<>>
    ELSE (IF Head(value) = from THEN to ELSE <<Head(value)>>)
         \o replace(Tail(value), from, to)

\* Mutant: only the first quote is doubled.
escape_string_first(value) ==
    LET hit == {i \in DOMAIN value : value[i] = "'"}
        k == CHOOSE i \in hit : \A j \in hit : i <= j
    IN  IF hit = {} THEN <<"'">> \o value \o <<"'">>
        ELSE <<"'">> \o SubSeq(value, 1, k) \o <<"'">> \o SubSeq(value, k + 1, Len(value)) \o <<"'">>

escape_string(value) ==
    IF contains(value, "'")
    THEN <<"'">> \o replace(value, "'", <<"'", "'">>) \o <<"'">>
    ELSE <<"'">> \o value \o <<"'">>

----------------------------------------------------------------------------
\* enum Type: a variant is named by its identifier.
Type ==
    {"INTEGER", "INT", "TINYINT", "SMALLINT", "MEDIUMINT", "BIGINT",
     "UNSIGNED_BIG_INT", "INT2", "INT8", "TEXT", "CLOB", "BLOB", "REAL",
     "DOUBLE", "DOUBLE_PRECISION", "FLOAT", "NUMERIC", "BOOLEAN", "DATE",
     "DATETIME"}

\* The spelling of each variant's identifier in the enum declaration.
TypeIdent(t) ==
    CASE t = "INTEGER" -> <<"I", "N", "T", "E", "G", "E", "R">>
      [] t = "INT" -> <<"I", "N", "T">>
      [] t = "TINYINT" -> <<"T", "I", "N", "Y", "I", "N", "T">>
      [] t = "SMALLINT" -> <<"S", "M", "A", "L", "L", "I", "N", "T">>
      [] t = "MEDIUMINT" -> <<"M", "E", "D", "I", "U", "M", "I", "N", "T">>
      [] t = "BIGINT" -> <<"B", "I", "G", "I", "N", "T">>
      [] t = "UNSIGNED_BIG_INT" -> <<"U", "N", "S", "I", "G", "N", "E", "D", "_", "B", "I", "G", "_", "I", "N", "T">>
      [] t = "INT2" -> <<"I", "N", "T", "2">>
      [] t = "INT8" -> <<"I", "N", "T", "8">>
      [] t = "TEXT" -> <<"T", "E", "X", "T">>
      [] t = "CLOB" -> <<"C", "L", "O", "B">>
      [] t = "BLOB" -> <<"B", "L", "O", "B">>
      [] t = "REAL" -> <<"R", "E", "A", "L">>
      [] t = "DOUBLE" -> <<"D", "O", "U", "B", "L", "E">>
      [] t = "DOUBLE_PRECISION" -> <<"D", "O", "U", "B", "L", "E", "_", "P", "R", "E", "C", "I", "S", "I", "O", "N">>
      [] t = "FLOAT" -> <<"F", "L", "O", "A", "T">>
      [] t = "NUMERIC" -> <<"N", "U", "M", "E", "R", "I", "C">>
      [] t = "BOOLEAN" -> <<"B", "O", "O", "L", "E", "A", "N">>
      [] t = "DATE" -> <<"D", "A", "T", "E">>
      [] t = "DATETIME" -> <<"D", "A", "T", "E", "T", "I", "M", "E">>

\* Mutant: the identifier itself, underscores kept.
Type_name_ident(t) == TypeIdent(t)

Type_name(t) ==
    CASE t = "INTEGER" -> <<"I", "N", "T", "E", "G", "E", "R">>
      [] t = "INT" -> <<"I", "N", "T">>
      [] t = "TINYINT" -> <<"T", "I", "N", "Y", "I", "N", "T">>
      [] t = "SMALLINT" -> <<"S", "M", "A", "L", "L", "I", "N", "T">>
      [] t = "MEDIUMINT" -> <<"M", "E", "D", "I", "U", "M", "I", "N", "T">>
      [] t = "BIGINT" -> <<"B", "I", "G", "I", "N", "T">>
      [] t = "UNSIGNED_BIG_INT" -> <<"U", "N", "S", "I", "G", "N", "E", "D", " ", "B", "I", "G", " ", "I", "N", "T">>
      [] t = "INT2" -> <<"I", "N", "T", "2">>
      [] t = "INT8" -> <<"I", "N", "T", "8">>
      [] t = "TEXT" -> <<"T", "E", "X", "T">>
      [] t = "CLOB" -> <<"C", "L", "O", "B">>
      [] t = "BLOB" -> <<"B", "L", "O", "B">>
      [] t = "REAL" -> <<"R", "E", "A", "L">>
      [] t = "DOUBLE" -> <<"D", "O", "U", "B", "L", "E">>
      [] t = "DOUBLE_PRECISION" -> <<"D", "O", "U", "B", "L", "E", " ", "P", "R", "E", "C", "I", "S", "I", "O", "N">>
      [] t = "FLOAT" -> <<"F", "L", "O", "A", "T">>
      [] t = "NUMERIC" -> <<"N", "U", "M", "E", "R", "I", "C">>
      [] t = "BOOLEAN" -> <<"B", "O", "O", "L", "E", "A", "N">>
      [] t = "DATE" -> <<"D", "A", "T", "E">>
      [] t = "DATETIME" -> <<"D", "A", "T", "E", "T", "I", "M", "E">>

----------------------------------------------------------------------------
\* enum Attribute: six tags and DEFAULT(String).
AttributeTag == {"PRIMARY_KEY", "ASC", "DESC", "UNIQUE", "NOT_NULL", "AUTOINCREMENT"}

Attr(tag) == [tag |-> tag]

DEFAULT(value) == [tag |-> "DEFAULT", value |-> value]

Attribute_name(a) ==
    CASE a.tag = "PRIMARY_KEY" -> <<"P", "R", "I", "M", "A", "R", "Y", " ", "K", "E", "Y">>
      [] a.tag = "ASC" -> <<"A", "S", "C">>
      [] a.tag = "DESC" -> <<"D", "E", "S", "C">>
      [] a.tag = "UNIQUE" -> <<"U", "N", "I", "Q", "U", "E">>
      [] a.tag = "NOT_NULL" -> <<"N", "O", "T", " ", "N", "U", "L", "L">>
      [] a.tag = "AUTOINCREMENT" -> <<"A", "U", "T", "O", "I", "N", "C", "R", "E", "M", "E", "N", "T">>
      [] a.tag = "DEFAULT" -> <<"D", "E", "F", "A", "U", "L", "T", " ">> \o escape_string(a.value)

\* enum ForeignKeyAttribute
ForeignKeyAttribute ==
    {"REFERENCES", "ON_DELETE", "ON_UPDATE", "SET_NULL", "SET_DEFAULT",
     "CASCADE", "RESTRICT", "NO_ACTION", "DEFERRABLE_INITIALLY_DEFERRED"}

\* impl Display for ForeignKeyAttribute
ForeignKeyAttribute_fmt(a) ==
    CASE a = "REFERENCES" -> <<"R", "E", "F", "E", "R", "E", "N", "C", "E", "S">>
      [] a = "ON_DELETE" -> <<"O", "N", " ", "D", "E", "L", "E", "T", "E">>
      [] a = "ON_UPDATE" -> <<"O", "N", " ", "U", "P", "D", "A", "T", "E">>
      [] a = "SET_NULL" -> <<"S", "E", "T", " ", "N", "U", "L", "L">>
      [] a = "SET_DEFAULT" -> <<"S", "E", "T", " ", "D", "E", "F", "A", "U", "L", "T">>
      [] a = "CASCADE" -> <<"C", "A", "S", "C", "A", "D", "E">>
      [] a = "RESTRICT" -> <<"R", "E", "S", "T", "R", "I", "C", "T">>
      [] a = "NO_ACTION" -> <<"N", "O", " ", "A", "C", "T", "I", "O", "N">>
      [] a = "DEFERRABLE_INITIALLY_DEFERRED" -> <<"D", "E", "F", "E", "R", "R", "A", "B", "L", "E", " ", "I", "N", "I", "T", "I", "A", "L", "L", "Y", " ", "D", "E", "F", "E", "R", "R", "E", "D">>

----------------------------------------------------------------------------
\* enum Column { Column { name, column_type, attributes }, Constraint(String) }
Column_Column(name, column_type, attributes) ==
    [shape |-> "Column", name |-> name, column_type |-> column_type,
     attributes |-> attributes]

Column_Constraint(value) == [shape |-> "Constraint", value |-> value]

\* Mutant: an empty attribute list is stored as given.
column_keep(name, column_type, attributes) ==
    Column_Column(name, column_type, Some(attributes))

\* pub fn column
column(name, column_type, attributes) ==
    Column_Column(name, column_type,
                  IF attributes = <<>> THEN None ELSE Some(attributes))

\* Mutant: a constraint answers with its text.
Column_name_lenient(c) ==
    IF c.shape = "Column" THEN Ok(c.name) ELSE Ok(c.value)

\* Column::name
Column_name(c) ==
    IF c.shape = "Column" THEN Ok(c.name) ELSE Panic

\* Column::create_statement
create_statement(c) ==
    IF c.shape = "Column"
    THEN IF c.attributes.some
         THEN c.name \o <<" ">> \o Type_name(c.column_type) \o <<" ">>
              \o join([i \in DOMAIN c.attributes.v |->
                          Attribute_name(c.attributes.v[i])], <<" ">>)
         ELSE c.name \o <<" ">> \o Type_name(c.column_type)
    ELSE c.value

\* Mutant: the attributes are left out of the added column.
create_add_sql_bare(c) ==
    IF c.shape = "Column"
    THEN Ok(<<"A", "L", "T", "E", "R", " ", "T", "A", "B", "L", "E", " ">> \o c.name \o <<" ", "A", "D", "D", " ">>
            \o c.name \o <<" ">> \o Type_name(c.column_type))
    ELSE Panic

\* Column::create_add_sql
create_add_sql(c) ==
    IF c.shape = "Column"
    THEN Ok(<<"A", "L", "T", "E", "R", " ", "T", "A", "B", "L", "E", " ">> \o c.name \o <<" ", "A", "D", "D", " ">> \o create_statement(c))
    ELSE Panic

\* Mutant: a column given twice is named once.
names_of_dedup(keys) ==
    LET fresh == {i \in DOMAIN keys : \A j \in 1..(i - 1) : keys[j] # keys[i]}
        f[n \in 0..Len(keys)] ==
            IF n = 0 THEN <<>>
            ELSE IF n \in fresh THEN Append(f[n - 1], Column_name(keys[n]))
            ELSE f[n - 1]
    IN  f[Len(keys)]

\* The names the constraint builders read, in argument order.
names_of(keys) == [i \in DOMAIN keys |-> Column_name(keys[i])]

\* pub fn primary_key
primary_key(keys) ==
    LET names == names_of(keys)
    IN  IF \E i \in DOMAIN names : ~names[i].ok THEN Panic
        ELSE Ok(Column_Constraint(
                 Attribute_name(Attr("PRIMARY_KEY")) \o <<" ", "(">>
                 \o join([i \in DOMAIN names |-> names[i].val], <<",", " ">>)
                 \o <<")">>))

\* pub fn unique
unique(keys) ==
    LET names == names_of(keys)
    IN  IF \E i \in DOMAIN names : ~names[i].ok THEN Panic
        ELSE Ok(Column_Constraint(
                 Attribute_name(Attr("UNIQUE")) \o <<" ", "(">>
                 \o join([i \in DOMAIN names |-> names[i].val], <<",", " ">>)
                 \o <<")">>))

\* impl From<&T: Table> / From<String> / From<&str> for TableName
TableName_from_table(t) == t.name

TableName_from_str(value) == value

\* Mutant: the trailing clauses are appended without the emptiness test.
foreign_key_trailing(column_name, references, other_table_name, other_table_column, attributes) ==
    LET n1 == Column_name(column_name)
        n2 == Column_name(other_table_column)
    IN  IF ~n1.ok \/ ~n2.ok THEN Panic
        ELSE Ok(Column_Constraint(
                 <<"F", "O", "R", "E", "I", "G", "N", " ", "K", "E", "Y", " ", "(">> \o n1.val \o <<")", " ">>
                 \o ForeignKeyAttribute_fmt(references) \o <<" ">>
                 \o other_table_name \o <<" ", "(">> \o n2.val \o <<")">>
                 \o <<" ">> \o join([i \in DOMAIN attributes |->
                              ForeignKeyAttribute_fmt(attributes[i])], <<" ">>)))

\* pub fn foreign_key; other_table_name is the text held by the TableName.
foreign_key(column_name, references, other_table_name, other_table_column, attributes) ==
    LET n1 == Column_name(column_name)
        n2 == Column_name(other_table_column)
    IN  IF ~n1.ok \/ ~n2.ok THEN Panic
        ELSE Ok(Column_Constraint(
                 <<"F", "O", "R", "E", "I", "G", "N", " ", "K", "E", "Y", " ", "(">> \o n1.val \o <<")", " ">>
                 \o ForeignKeyAttribute_fmt(references) \o <<" ">>
                 \o other_table_name \o <<" ", "(">> \o n2.val \o <<")">>
                 \o (IF attributes = <<>> THEN <<>>
                     ELSE <<" ">> \o join([i \in DOMAIN attributes |->
                              ForeignKeyAttribute_fmt(attributes[i])], <<" ">>))))

----------------------------------------------------------------------------
\* A type implementing trait Table: name() and columns(), the latter a
\* Vec<Arc<Column>> held as indices into heap.
NoTable == [built |-> FALSE]

Table_name(t) == t.name

Table_columns(t) == [i \in DOMAIN t.columns |-> heap[t.columns[i]]]

\* Mutant: the fragments are emitted last column first.
create_sql_reversed(t) ==
    LET cols == Table_columns(t)
    IN  <<"C", "R", "E", "A", "T", "E", " ", "T", "A", "B", "L", "E", " ">> \o Table_name(t) \o <<" ", "(">>
        \o join([i \in DOMAIN cols |->
                    create_statement(cols[Len(cols) + 1 - i])], <<",", " ">>)
        \o <<")">>

\* Table::create_sql (the trait's default method)
create_sql(t) ==
    <<"C", "R", "E", "A", "T", "E", " ", "T", "A", "B", "L", "E", " ">> \o Table_name(t) \o <<" ", "(">>
    \o join([i \in DOMAIN Table_columns(t) |->
                create_statement(Table_columns(t)[i])], <<",", " ">>)
    \o <<")">>

----------------------------------------------------------------------------
\* The calling program.  ret records the last call: its operation, its
\* arguments and its outcome; first is the text of the table's first
\* create_sql().

Init ==
    /\ heap = <<>>
    /\ table = NoTable
    /\ ret = [op |-> "init", arg |-> <<>>, res |-> Ok(<<>>)]
    /\ first = None

Returned(op, arg, res) == ret' = [op |-> op, arg |-> arg, res |-> res]

\* The caller binds a returned Arc<Column> to a variable, or drops it.
\* Keep is the set of choices the explored callers make.
Bind(res, Keep) ==
    \E keep \in Keep :
        /\ keep => (res.ok /\ Len(heap) < MaxHeap)
        /\ heap' = IF keep THEN Append(heap, res.val) ELSE heap

\* The columns behind a sequence of Arc<Column>.
Deref(keys) == [i \in DOMAIN keys |-> heap[keys[i]]]

\* column(name, column_type, attributes)
Call_column(N, T, A, Keep) ==
    /\ ret.res.ok
    /\ \E name \in N, column_type \in T, attributes \in A :
          LET r == Ok(column(name, column_type, attributes))
          IN  /\ Bind(r, Keep)
              /\ Returned("column", <<name, column_type, attributes>>, r)
    /\ UNCHANGED <<table, first>>

\* Arc::new(Column::Column { name, column_type, attributes }): the variant is public.
Construct_Column(N, T, AO, Keep) ==
    /\ ret.res.ok
    /\ \E name \in N, column_type \in T, attributes \in AO :
          LET r == Ok(Column_Column(name, column_type, attributes))
          IN  /\ Bind(r, Keep)
              /\ Returned("Column::Column", <<name, column_type, attributes>>, r)
    /\ UNCHANGED <<table, first>>

\* Arc::new(Column::Constraint(value))
Construct_Constraint(X, Keep) ==
    /\ ret.res.ok
    /\ \E value \in X :
          LET r == Ok(Column_Constraint(value))
          IN  /\ Bind(r, Keep)
              /\ Returned("Column::Constraint", value, r)
    /\ UNCHANGED <<table, first>>

\* primary_key(keys)
Call_primary_key(K, Keep) ==
    /\ ret.res.ok
    /\ \E keys \in SeqsUpTo(DOMAIN heap, K) :
          LET r == primary_key(Deref(keys))
          IN  /\ Bind(r, Keep)
              /\ Returned("primary_key", Deref(keys), r)
    /\ UNCHANGED <<table, first>>

\* unique(keys)
Call_unique(K, Keep) ==
    /\ ret.res.ok
    /\ \E keys \in SeqsUpTo(DOMAIN heap, K) :
          LET r == unique(Deref(keys))
          IN  /\ Bind(r, Keep)
              /\ Returned("unique", Deref(keys), r)
    /\ UNCHANGED <<table, first>>

\* foreign_key(column_name, references, other_table_name, other_table_column, attributes)
\* with the table name given as text or as the table itself.
Call_foreign_key(R, TN, F, Keep) ==
    /\ ret.res.ok
    /\ \E c \in DOMAIN heap, o \in DOMAIN heap, references \in R, attributes \in F,
          tn \in {TableName_from_str(s) : s \in TN}
                 \cup (IF table.built THEN {TableName_from_table(table)} ELSE {}) :
          LET r == foreign_key(heap[c], references, tn, heap[o], attributes)
          IN  /\ Bind(r, Keep)
              /\ Returned("foreign_key",
                          <<heap[c], references, tn, heap[o], attributes>>, r)
    /\ UNCHANGED <<table, first>>

\* The program builds its value implementing Table, once.
New_Table(N, C) ==
    /\ ret.res.ok
    /\ ~table.built
    /\ \E name \in N, columns \in SeqsUpTo(DOMAIN heap, C) :
          /\ table' = [built |-> TRUE, name |-> name, columns |-> columns]
          /\ Returned("Table", <<name, columns>>, Ok(<<>>))
    /\ UNCHANGED <<heap, first>>

\* Mutant: rendering drains the table's column list.
Call_create_sql_drain ==
    /\ ret.res.ok
    /\ table.built
    /\ Returned("create_sql", <<table.name, Table_columns(table)>>, Ok(create_sql(table)))
    /\ first' = IF first.some THEN first ELSE Some(create_sql(table))
    /\ table' = [table EXCEPT !.columns = <<>>]
    /\ UNCHANGED heap

\* table.create_sql()
Call_create_sql ==
    /\ ret.res.ok
    /\ table.built
    /\ Returned("create_sql", <<table.name, Table_columns(table)>>, Ok(create_sql(table)))
    /\ first' = IF first.some THEN first ELSE Some(create_sql(table))
    /\ UNCHANGED <<heap, table>>

\* heap[i].name()
Call_Column_name ==
    /\ ret.res.ok
    /\ \E i \in DOMAIN heap : Returned("Column::name", heap[i], Column_name(heap[i]))
    /\ UNCHANGED <<heap, table, first>>

\* heap[i].create_add_sql()
Call_create_add_sql ==
    /\ ret.res.ok
    /\ \E i \in DOMAIN heap : Returned("create_add_sql", heap[i], create_add_sql(heap[i]))
    /\ UNCHANGED <<heap, table, first>>

\* escape_string(value)
Call_escape_string(V) ==
    /\ ret.res.ok
    /\ \E value \in V : Returned("escape_string", value, Ok(escape_string(value)))
    /\ UNCHANGED <<heap, table, first>>

\* attribute.name()
Call_Attribute_name(A) ==
    /\ ret.res.ok
    /\ \E a \in A : Returned("Attribute::name", a, Ok(Attribute_name(a)))
    /\ UNCHANGED <<heap, table, first>>

\* column_type.name()
Call_Type_name(T) ==
    /\ ret.res.ok
    /\ \E t \in T : Returned("Type::name", t, Ok(Type_name(t)))
    /\ UNCHANGED <<heap, table, first>>

----------------------------------------------------------------------------
\* The inputs the programs draw from.

\* DEFAULT payloads: quotes (single, adjacent, leading, trailing) and letters.
Payloads == SeqsUpTo({"'", "x"}, MaxLen)

AllAttributes == {Attr(tag) : tag \in AttributeTag} \cup {DEFAULT(v) : v \in Payloads}

\* Programs that escape DEFAULT payloads and render attributes.
NextEscape ==
    \/ Call_escape_string(Payloads)
    \/ Call_Attribute_name(AllAttributes)
    \/ Call_column({<<"v">>}, {"TEXT"}, {<<DEFAULT(v)>> : v \in SeqsUpTo({"'"}, MaxLen)}, BOOLEAN)
    \/ Call_create_add_sql

SpecEscape == Init /\ [][NextEscape]_vars

\* Programs that render every column type.
NextTypes ==
    \/ Call_Type_name(Type)
    \/ Call_column({<<"c">>}, Type, {<<>>}, BOOLEAN)
    \/ Call_create_add_sql

SpecTypes == Init /\ [][NextTypes]_vars

\* Programs that build columns with attributes and render them.
NextColumn ==
    \/ Call_column({<<"i", "d">>}, {"UNSIGNED_BIG_INT"},
                   SeqsUpTo({Attr("NOT_NULL"), DEFAULT(<<"'">>)}, MaxAttrs), BOOLEAN)
    \/ Construct_Constraint({<<"C", "H", "E", "C", "K", " ", "(", "i", "d", ")">>}, BOOLEAN)
    \/ Call_Attribute_name({Attr("NOT_NULL"), DEFAULT(<<"'">>)})
    \/ Call_create_add_sql

SpecColumn == Init /\ [][NextColumn]_vars

\* Programs that build table constraints over columns and over constraints.
NextConstraint ==
    \/ Call_column({<<"a">>, <<"b">>}, {"INTEGER"}, {<<>>}, BOOLEAN)
    \/ Construct_Constraint({<<"x">>}, BOOLEAN)
    \/ Call_primary_key(MaxKeys, BOOLEAN)
    \/ Call_unique(MaxKeys, BOOLEAN)
    \/ Call_foreign_key({"REFERENCES"}, {<<"t">>}, {<<>>}, BOOLEAN)
    \/ Call_Column_name
    \/ Call_create_add_sql

SpecConstraint == Init /\ [][NextConstraint]_vars

\* Programs that build foreign keys between columns, naming the other table
\* by text (possibly empty) or by the table itself.
NextForeign ==
    \/ Call_column({<<"a">>, <<"b">>}, {"INTEGER"}, {<<>>}, BOOLEAN)
    \/ New_Table({<<"u">>}, 0)
    \/ Call_foreign_key({"REFERENCES", "DEFERRABLE_INITIALLY_DEFERRED"}, {<<"t">>, <<>>},
                        SeqsUpTo({"ON_DELETE", "CASCADE"}, MaxFk), {FALSE})

SpecForeign == Init /\ [][NextForeign]_vars

\* Programs that declare a table over shared columns and query it.
Next ==
    \/ Call_column({<<"a">>, <<"b">>}, {"TEXT"}, {<<>>}, BOOLEAN)
    \/ Construct_Column({<<"a">>}, {"TEXT"}, {Some(<<>>), Some(<<Attr("NOT_NULL")>>)}, BOOLEAN)
    \/ Call_unique(MaxRefs, BOOLEAN)
    \/ New_Table({<<"t", "'">>}, MaxCols)
    \/ Call_create_sql
    \/ Call_Column_name
    \/ Call_create_add_sql

Spec == Init /\ [][Next]_vars

----------------------------------------------------------------------------
\* Properties.  The expected texts are written separator-first, not with join.

\* v[1], then sep before every further element.
RECURSIVE Listed(_, _)
Listed(v, sep) ==
    IF v = <<>> THEN <<>>
    ELSE IF Len(v) = 1 THEN v[1]
    ELSE Listed(SubSeq(v, 1, Len(v) - 1), sep) \o sep \o v[Len(v)]

\* pre before every element.
RECURSIVE Prefixed(_, _)
Prefixed(v, pre) ==
    IF v = <<>> THEN <<>>
    ELSE Prefixed(SubSeq(v, 1, Len(v) - 1), pre) \o pre \o v[Len(v)]

HasDoubleSpace(s) == \E i \in 1..(Len(s) - 1) : s[i] = " " /\ s[i + 1] = " "

IsDefinition(c) == c.shape = "Column"

IsConstraint(c) == c.shape = "Constraint"

\* A Definition with no attributes: absent, or an empty list.
NoAttributes(c) == IsDefinition(c) /\ (~c.attributes.some \/ c.attributes.v = <<>>)

\* C1: create_sql() returns "CREATE TABLE <name> (" then the fragments of
\* columns() in declared order joined by ", ", none dropped or moved, then ")",
\* with the table name verbatim.
C1_CreateSqlShape ==
    ret.op = "create_sql" =>
        ret.res.val = <<"C", "R", "E", "A", "T", "E", " ", "T", "A", "B", "L", "E", " ">> \o ret.arg[1] \o <<" ", "(">>
                      \o Listed([i \in DOMAIN ret.arg[2] |->
                                    create_statement(ret.arg[2][i])], <<",", " ">>)
                      \o <<")">>

\* A column listed as a Definition and again inside a later UNIQUE.
C1_Witness ==
    /\ ret.op = "create_sql"
    /\ ret.res.val = <<"C", "R", "E", "A", "T", "E", " ", "T", "A", "B", "L", "E", " ", "t", "'", " ", "(", "b", " ", "T", "E", "X", "T", ",", " ", "U", "N", "I", "Q", "U", "E", " ", "(", "b", ")", ")">>

\* C2: a Column from column(name, type, attributes) renders as "<name> <TYPE>"
\* followed by one space and the attribute for every attribute, in order; a
\* Constraint renders as its stored text.
C2_ColumnRendering ==
    /\ ret.op = "column" =>
          create_statement(ret.res.val)
              = ret.arg[1] \o <<" ">> \o Type_name(ret.arg[2])
                \o Prefixed([i \in DOMAIN ret.arg[3] |->
                                Attribute_name(ret.arg[3][i])], <<" ">>)
    /\ ret.op = "Column::Constraint" => create_statement(ret.res.val) = ret.arg

C2_Witness ==
    /\ ret.op = "column"
    /\ ret.arg[3] = <<Attr("NOT_NULL"), DEFAULT(<<"'">>)>>
    /\ create_statement(ret.res.val) = <<"i", "d", " ", "U", "N", "S", "I", "G", "N", "E", "D", " ", "B", "I", "G", " ", "I", "N", "T", " ", "N", "O", "T", " ", "N", "U", "L", "L", " ", "D", "E", "F", "A", "U", "L", "T", " ", "'", "'", "'", "'">>

\* Every quote of v doubled, character by character.
RECURSIVE Doubled(_)
Doubled(v) ==
    IF v = <<>> THEN <<>>
    ELSE Doubled(SubSeq(v, 1, Len(v) - 1))
         \o (IF v[Len(v)] = "'" THEN <<"'", "'">> ELSE <<v[Len(v)]>>)

\* Every pair of quotes read as one quote, left to right.
RECURSIVE Undoubled(_)
Undoubled(s) ==
    IF s = <<>> THEN <<>>
    ELSE IF Len(s) >= 2 /\ s[1] = "'" /\ s[2] = "'"
         THEN <<"'">> \o Undoubled(SubSeq(s, 3, Len(s)))
         ELSE <<s[1]>> \o Undoubled(Tail(s))

\* Strip the outer quotes, then undouble.
Unescaped(s) == Undoubled(SubSeq(s, 2, Len(s) - 1))

\* C3: escape_string(v) is a quote, v with every quote doubled, a quote;
\* unescaping it gives v back; DEFAULT(v) renders as "DEFAULT " and that literal.
C3_EscapeRoundTrip ==
    /\ ret.op = "escape_string" =>
          /\ ret.res.val = <<"'">> \o Doubled(ret.arg) \o <<"'">>
          /\ Unescaped(ret.res.val) = ret.arg
    /\ (ret.op = "Attribute::name" /\ ret.arg.tag = "DEFAULT") =>
          /\ ret.res.val = <<"D", "E", "F", "A", "U", "L", "T", " ", "'">> \o Doubled(ret.arg.value) \o <<"'">>
          /\ Unescaped(SubSeq(ret.res.val, Len(<<"D", "E", "F", "A", "U", "L", "T", " ">>) + 1, Len(ret.res.val)))
                 = ret.arg.value

\* Adjacent quotes before a letter.
C3_Witness ==
    /\ ret.op = "escape_string"
    /\ ret.arg = <<"'", "'", "x">>
    /\ ret.res.val = <<"'", "'", "'", "'", "'", "x", "'">>

\* C4: primary_key and unique over Definitions return the Constraint
\* "PRIMARY KEY (<names>)" or "UNIQUE (<names>)", the names in input order
\* joined by ", ", a repeated column named as often as given.
C4_KeyListShape ==
    (ret.op \in {"primary_key", "unique"} /\ \A i \in DOMAIN ret.arg : IsDefinition(ret.arg[i])) =>
        ret.res = Ok(Column_Constraint(
                      (IF ret.op = "primary_key" THEN <<"P", "R", "I", "M", "A", "R", "Y", " ", "K", "E", "Y">> ELSE <<"U", "N", "I", "Q", "U", "E">>)
                      \o <<" ", "(">>
                      \o Listed([i \in DOMAIN ret.arg |-> ret.arg[i].name], <<",", " ">>)
                      \o <<")">>))

\* The same column given twice.
C4_Witness ==
    /\ ret.op = "primary_key"
    /\ Len(ret.arg) = 2
    /\ ret.arg[1] = ret.arg[2]
    /\ ret.res.ok
    /\ ret.res.val.value = <<"P", "R", "I", "M", "A", "R", "Y", " ", "K", "E", "Y", " ", "(", "a", ",", " ", "a", ")">>

C6_ConstraintPanics ==
    /\ ret.op \in {"Column::name", "create_add_sql"} =>
          (ret.res.ok <=> IsDefinition(ret.arg))
    /\ (ret.op \in {"primary_key", "unique"}
          /\ \E i \in DOMAIN ret.arg : IsConstraint(ret.arg[i])) => ret.res = Panic
    /\ (ret.op = "foreign_key"
          /\ (IsConstraint(ret.arg[1]) \/ IsConstraint(ret.arg[4]))) => ret.res = Panic

\* primary_key over a column and a Constraint that unique built.
C6_Witness ==
    /\ ret.op = "primary_key"
    /\ Len(ret.arg) = 2
    /\ IsDefinition(ret.arg[1])
    /\ ret.arg[2] = Column_Constraint(<<"U", "N", "I", "Q", "U", "E", " ", "(", "a", ")">>)
    /\ ret.res = Panic

\* C7: once the table is built neither it nor the columns it shares change,
\* and every create_sql() returns the text of the first.
C7_CreateSqlReadOnly ==
    [][/\ table.built =>
             /\ table' = table
             /\ \A i \in DOMAIN heap : i \in DOMAIN heap' /\ heap'[i] = heap[i]
       /\ first.some =>
             /\ first' = first
             /\ ret'.op = "create_sql" => ret'.res.val = first.v]_vars

\* After a create_sql(), unique is applied to a column the table shares.
C7_Witness ==
    /\ first.some
    /\ ret.op = "unique"
    /\ ret.res.ok
    /\ Len(ret.arg) = 1
    /\ table.columns # <<>>
    /\ ret.arg[1] = heap[table.columns[1]]
    /\ heap[Len(heap)] = ret.res.val
    /\ create_sql(table) = first.v

\* An identifier with every underscore read as a space.
Spaced(s) == [i \in DOMAIN s |-> IF s[i] = "_" THEN " " ELSE s[i]]

\* C8: Type has 20 variants; name() maps each to its identifier with
\* underscores as spaces, no two to the same keyword; that keyword follows the
\* column name in the rendered definition.
C8_TypeKeywords ==
    /\ Cardinality(Type) = 20
    /\ ret.op = "Type::name" =>
          /\ ret.res.val = Spaced(TypeIdent(ret.arg))
          /\ \A t \in Type : Type_name(t) = ret.res.val => t = ret.arg
    /\ (ret.op = "create_add_sql" /\ ret.res.ok) =>
          ret.res.val = <<"A", "L", "T", "E", "R", " ", "T", "A", "B", "L", "E", " ">> \o ret.arg.name \o <<" ", "A", "D", "D", " ">> \o ret.arg.name
                        \o <<" ">> \o Spaced(TypeIdent(ret.arg.column_type))

C8_Witness ==
    /\ ret.op = "create_add_sql"
    /\ ret.arg.column_type = "UNSIGNED_BIG_INT"
    /\ ret.res.ok
    /\ ret.res.val = <<"A", "L", "T", "E", "R", " ", "T", "A", "B", "L", "E", " ", "c", " ", "A", "D", "D", " ", "c", " ", "U", "N", "S", "I", "G", "N", "E", "D", " ", "B", "I", "G", " ", "I", "N", "T">>

\* The text column i of heap contributes to the create_sql() of a table t
\* listing it alone.
FragmentInTable(i) ==
    LET sql == create_sql([built |-> TRUE, name |-> <<"t">>, columns |-> <<i>>])
    IN  SubSeq(sql, Len(<<"C", "R", "E", "A", "T", "E", " ", "T", "A", "B", "L", "E", " ", "t", " ", "(">>) + 1, Len(sql) - 1)

\* C9: create_add_sql() on a Definition returns "ALTER TABLE <column-name> ADD "
\* and the fragment the column contributes to create_sql().
C9_AddSqlShape ==
    (ret.op = "create_add_sql" /\ IsDefinition(ret.arg)) =>
        /\ ret.res.ok
        /\ \A i \in DOMAIN heap :
              heap[i] = ret.arg =>
                  ret.res.val = <<"A", "L", "T", "E", "R", " ", "T", "A", "B", "L", "E", " ">> \o ret.arg.name \o <<" ", "A", "D", "D", " ">>
                                \o FragmentInTable(i)

\* A column of a table whose name differs from the column's.
C9_Witness ==
    /\ ret.op = "create_add_sql"
    /\ table.built
    /\ table.columns # <<>>
    /\ IsDefinition(ret.arg)
    /\ ret.arg = heap[table.columns[1]]
    /\ Table_name(table) # ret.arg.name
    /\ ret.res.ok
    /\ ret.res.val = <<"A", "L", "T", "E", "R", " ", "T", "A", "B", "L", "E", " ", "a", " ", "A", "D", "D", " ", "a", " ", "T", "E", "X", "T", " ", "N", "O", "T", " ", "N", "U", "L", "L">>

\* The fragment C10 expects of a column.
ExpectedFragment(c) ==
    IF NoAttributes(c) THEN c.name \o <<" ">> \o Type_name(c.column_type)
    ELSE create_statement(c)

\* C10: a Definition with an empty attribute list renders like one with no
\* attributes, "<name> <TYPE>", in create_add_sql() and in create_sql().
C10_EmptyRendersAsAbsent ==
    /\ (ret.op = "create_add_sql" /\ NoAttributes(ret.arg)) =>
          ret.res.val = <<"A", "L", "T", "E", "R", " ", "T", "A", "B", "L", "E", " ">> \o ret.arg.name \o <<" ", "A", "D", "D", " ">>
                        \o ret.arg.name \o <<" ">> \o Type_name(ret.arg.column_type)
    /\ ret.op = "create_sql" =>
          ret.res.val = <<"C", "R", "E", "A", "T", "E", " ", "T", "A", "B", "L", "E", " ">> \o ret.arg[1] \o <<" ", "(">>
                        \o Listed([i \in DOMAIN ret.arg[2] |->
                                      ExpectedFragment(ret.arg[2][i])], <<",", " ">>)
                        \o <<")">>

====
